---- MODULE Spec2Model ----
(***************************************************************************)
(* A model of dayone-to-obsidian: import.py's convert command, utils.py's  *)
(* process_journal, retrieve_metadata and capwords, and entry.py's Entry.  *)
(*                                                                         *)
(* Python str values whose characters the code inspects (tags, the tag     *)
(* prefix, place names) are sequences of one-character strings; everything *)
(* else is a TLA+ string built with \o.  An entry's text is a sequence of  *)
(* chunks: literal strings and the link shapes the regular expressions of  *)
(* utils.py match.  An ordered dict is a sequence of key/value records.    *)
(* A character outside ASCII, and the backquote, is written <U+hhhh>.     *)
(***************************************************************************)
EXTENDS Integers, Sequences, FiniteSets, TLC

VARIABLES
    data,            \* the journal JSON document (json.load result), fixed on disk
    tag_prefix,      \* --tags-prefix, a character sequence
    convert_links,   \* --convert-links
    yaml,            \* --yaml/--no-yaml
    merge_entries,   \* --merge-entries
    ignore_tags,     \* set of ignored tags
    folder_json,     \* names of the *.json files in FOLDER
    dirs,            \* directories that exist below FOLDER
    vault,           \* files below FOLDER: path |-> content (sequence of chunks)
    attachments,     \* attachment files below FOLDER (photos/, pdfs/, audios/, videos/)
    pc,              \* position of the program
    journal,         \* the journal file process_journal was called with (its stem)
    i,               \* index of the next record of data["entries"] in the first loop
    entries,         \* the OrderedDict of process_journal
    uuid_to_file,    \* the dict uuid -> file name of process_journal
    k,               \* index of the next value of entries in the second loop
    error,           \* the exception that ended the run, "" if none
    processed,       \* TRUE once a run of process_journal has returned
    cleared,         \* the files shutil.rmtree removed when this run started
    previous         \* what the run before this one left when this run started

config == <<data, tag_prefix, convert_links, yaml, merge_entries, ignore_tags>>
disk == <<folder_json, dirs, vault, attachments>>
locals == <<journal, i, entries, uuid_to_file, k>>
vars == <<config, disk, locals, pc, error, processed, cleared, previous>>

(***************************************************************************)
(* Bounds of the model.                                                    *)
(***************************************************************************)
MaxEntries == 3
MaxTagLen == 3

(***************************************************************************)
(* Characters and strings.                                                 *)
(***************************************************************************)
LowerCase == <<"a","b","c","d","e","f","g","h","i","j","k","l","m",
               "n","o","p","q","r","s","t","u","v","w","x","y","z">>
UpperCase == <<"A","B","C","D","E","F","G","H","I","J","K","L","M",
               "N","O","P","Q","R","S","T","U","V","W","X","Y","Z">>

Range(s) == {s[n] : n \in DOMAIN s}

IndexOf(c, s) == CHOOSE n \in DOMAIN s : s[n] = c

\* str.upper() and str.lower() on one character
upper(c) == IF c \in Range(LowerCase) THEN UpperCase[IndexOf(c, LowerCase)] ELSE c
lower(c) == IF c \in Range(UpperCase) THEN LowerCase[IndexOf(c, UpperCase)] ELSE c

\* "".join(chars): a character sequence as a string
RECURSIVE Str(_)
Str(s) == IF s = <<>> THEN "" ELSE Head(s) \o Str(Tail(s))

\* sep.join(strings)
RECURSIVE Join(_, _)
Join(sep, ss) ==
    IF ss = <<>> THEN ""
    ELSE IF Len(ss) = 1 THEN ss[1]
    ELSE ss[1] \o sep \o Join(sep, Tail(ss))

\* string.split(" ") on a character sequence: the sequence of words
RECURSIVE split(_)
split(s) ==
    IF \A n \in DOMAIN s : s[n] # " " THEN <<s>>
    ELSE LET p == CHOOSE n \in DOMAIN s :
                      s[n] = " " /\ \A m \in 1..(n - 1) : s[m] # " "
         IN <<SubSeq(s, 1, p - 1)>> \o split(SubSeq(s, p + 1, Len(s)))

\* a variant of CapWord that leaves the rest of the word as it is
CapWordKeepsCase(word) ==
    <<upper(word[1])>> \o [n \in 1..(Len(word) - 1) |-> word[n + 1]]

\* a variant of CapWord without the slice: word[0].upper() + word.lower()
CapWordRepeatsFirst(word) ==
    <<upper(word[1])>> \o [n \in 1..Len(word) |-> lower(word[n])]

\* word[0].upper() + word[1:].lower()
CapWord(word) ==
    <<upper(word[1])>> \o [n \in 1..(Len(word) - 1) |-> lower(word[n + 1])]

RECURSIVE Concat(_)
Concat(ws) == IF ws = <<>> THEN <<>> ELSE Head(ws) \o Concat(Tail(ws))

\* word[0] raises IndexError on an empty word
capwordsRaises(string) == \E n \in DOMAIN split(string) : split(string)[n] = <<>>

capwords(string) ==
    LET words == split(string)
    IN Concat([n \in DOMAIN words |-> CapWord(words[n])])

(***************************************************************************)
(* Dates.  A datetime is [year, month, day, hour, offset]: minutes and      *)
(* seconds are zero in the modelled inputs, offset is the UTC offset in     *)
(* hours.  creationDate strings of the export end in "Z" (offset 0).        *)
(***************************************************************************)
Digits == <<"0","1","2","3","4","5","6","7","8","9">>

RECURSIVE IntStr(_)
IntStr(n) == IF n < 10 THEN Digits[n + 1] ELSE IntStr(n \div 10) \o Digits[(n % 10) + 1]

\* %m, %d, %H: two digits, zero padded
Pad2(n) == Digits[(n \div 10) + 1] \o Digits[(n % 10) + 1]

IsLeap(y) == (y % 4 = 0 /\ y % 100 # 0) \/ y % 400 = 0

DaysInMonth(y, m) ==
    IF m = 2 THEN (IF IsLeap(y) THEN 28 + 1 ELSE 28)
    ELSE IF m \in {4, 6, 9, 11} THEN 30 ELSE 31

\* pytz.timezone(name): the UTC offset (hours) in force on the modelled dates
\* (April and May 2023, when Europe/Rome is on CEST).
TimeZones == [n \in {"UTC", "Europe/Rome"} |-> IF n = "UTC" THEN 0 ELSE 2]

\* creation_date.astimezone(tz) for a non-negative offset change
astimezone(d, tz) ==
    LET h    == d.hour - d.offset + TimeZones[tz]
        roll == h >= 24
        hh   == IF roll THEN h - 24 ELSE h
        dd   == IF roll THEN d.day + 1 ELSE d.day
        over == dd > DaysInMonth(d.year, d.month)
        day  == IF over THEN 1 ELSE dd
        mm   == IF over THEN d.month + 1 ELSE d.month
        mon  == IF mm > 12 THEN 1 ELSE mm
        yr   == IF mm > 12 THEN d.year + 1 ELSE d.year
    IN [year |-> yr, month |-> mon, day |-> day, hour |-> hh, offset |-> TimeZones[tz]]

\* d.strftime("%Y-%m-%d") and d.strftime("%Y-%m")
strftimeYmd(d) == IntStr(d.year) \o "-" \o Pad2(d.month) \o "-" \o Pad2(d.day)
strftimeYm(d) == IntStr(d.year) \o "-" \o Pad2(d.month)

\* d.isoformat()
isoformat(d) ==
    strftimeYmd(d) \o "T" \o Pad2(d.hour) \o ":00:00+" \o Pad2(d.offset) \o ":00"

(***************************************************************************)
(* Ordered dicts: sequences of [key, value] records in insertion order.    *)
(***************************************************************************)
Keys(dict) == {dict[n].key : n \in DOMAIN dict}

Get(dict, key) == dict[CHOOSE n \in DOMAIN dict : dict[n].key = key].value

\* dict[key] = value
Put(dict, key, value) ==
    IF key \in Keys(dict)
    THEN [n \in DOMAIN dict |->
             IF dict[n].key = key THEN [key |-> key, value |-> value] ELSE dict[n]]
    ELSE Append(dict, [key |-> key, value |-> value])

\* dict.pop(key, None): the dict without key
RECURSIVE Pop(_, _)
Pop(dict, key) ==
    IF dict = <<>> THEN <<>>
    ELSE IF Head(dict).key = key THEN Pop(Tail(dict), key)
    ELSE <<Head(dict)>> \o Pop(Tail(dict), key)

(***************************************************************************)
(* retrieve_metadata                                                       *)
(***************************************************************************)
PlaceKeys == <<"placeName", "localityName", "administrativeArea", "country">>

RECURSIVE SelectPlaces(_, _)
SelectPlaces(loc, keys) ==
    IF keys = <<>> THEN <<>>
    ELSE (IF Head(keys) \in DOMAIN loc /\ loc[Head(keys)] # <<>>
          THEN <<loc[Head(keys)]>> ELSE <<>>) \o SelectPlaces(loc, Tail(keys))

\* list(filter(None, [entry["location"].get(key) ...])), [] on KeyError
LocationOf(entry) ==
    IF "location" \in DOMAIN entry THEN SelectPlaces(entry.location, PlaceKeys) ELSE <<>>

\* location[-1:0:-1]: from the last element down to the second, reversed
ReverseTail(location) ==
    [n \in 1..(Len(location) - 1) |-> location[Len(location) + 1 - n]]

\* round(x, 1) of a value given in tenths, as Python prints a float
Tenths(n) == IntStr(n \div 10) \o "." \o Digits[(n % 10) + 1]

HasWeather(entry) ==
    /\ "weather" \in DOMAIN entry
    /\ {"conditionsDescription", "temperatureCelsius", "windSpeedKPH"}
           \subseteq DOMAIN entry.weather

WeatherStr(weather) ==
    weather.conditionsDescription \o ", " \o Tenths(weather.temperatureCelsius)
        \o "<U+00B0>C, " \o Tenths(weather.windSpeedKPH) \o " km/h wind"

RECURSIVE EntryTags(_, _, _)
EntryTags(tags, prefix, ignored) ==
    IF tags = <<>> THEN <<>>
    ELSE (IF Head(tags) \notin ignored
          THEN <<Str(capwords(prefix \o Head(tags)))>> ELSE <<>>)
         \o EntryTags(Tail(tags), prefix, ignored)

TagsOf(entry, prefix, ignored) ==
    LET location == LocationOf(entry)
        places   == ReverseTail(location)
    IN (IF "tags" \in DOMAIN entry THEN EntryTags(entry.tags, prefix, ignored) ELSE <<>>)
       \o (IF location # <<>>
           THEN <<"#places/" \o
                  Join("/", [n \in DOMAIN places |-> Str(capwords(places[n]))])>>
           ELSE <<>>)
       \o (IF entry.starred THEN <<"#<U+2764>">> ELSE <<>>)

\* the KeyError and IndexError cases of retrieve_metadata
retrieve_metadataRaises(entry, prefix, ignored) ==
    \/ "uuid" \notin DOMAIN entry
    \/ "timeZone" \notin DOMAIN entry
    \/ "starred" \notin DOMAIN entry
    \/ /\ "tags" \in DOMAIN entry
       /\ \E n \in DOMAIN entry.tags :
             entry.tags[n] \notin ignored /\ capwordsRaises(prefix \o entry.tags[n])
    \/ \E n \in DOMAIN ReverseTail(LocationOf(entry)) :
          capwordsRaises(ReverseTail(LocationOf(entry))[n])

Field(name, value) == [key |-> name, value |-> value]

retrieve_metadata(entry, local_date, prefix, ignored) ==
    LET location == LocationOf(entry)
        tags     == TagsOf(entry, prefix, ignored)
    IN <<Field("uuid", entry.uuid),
         Field("dates", isoformat(local_date)),
         Field("timezone", entry.timeZone),
         Field("places", Join(", ", [n \in DOMAIN location |-> Str(location[n])]))>>
       \o (IF /\ "location" \in DOMAIN entry
              /\ {"latitude", "longitude"} \subseteq DOMAIN entry.location
           THEN <<Field("location",
                        Str(entry.location.latitude) \o ", " \o Str(entry.location.longitude))>>
           ELSE <<>>)
       \o (IF HasWeather(entry) THEN <<Field("weather", WeatherStr(entry.weather))>> ELSE <<>>)
       \o (IF tags # <<>> THEN <<Field("tags", Join(", ", tags))>> ELSE <<>>)

(***************************************************************************)
(* Entry text.  A text is a sequence of chunks [k, a, b]:                  *)
(*   "s"      the literal string a                                         *)
(*   "bs" "ls" "ps" "zw"  a backslash, U+2028, U+1C6A, U+200B              *)
(*   "fence"  a match of ```\s+```                                         *)
(*   "link"   a match of the entry-link regex (utils.py:371) whose groups  *)
(*            are the link text a and the UUID b                           *)
(*   "photo" "pdf" "audio" "video"  a match of that category's placeholder *)
(*            regex whose identifier group is a                            *)
(***************************************************************************)
Chunk(kind, a, b) == [k |-> kind, a |-> a, b |-> b]
S(str) == Chunk("s", str, "")

\* the replace() and re.sub() calls of utils.py:203-211
RECURSIVE Sanitize(_)
Sanitize(text) ==
    IF text = <<>> THEN <<>>
    ELSE LET c == Head(text)
         IN (CASE c.k \in {"bs", "zw", "fence"} -> <<>>
               [] c.k = "ls" -> <<S("\n")>>
               [] c.k = "ps" -> <<S("\n\n")>>
               [] OTHER -> <<c>>) \o Sanitize(Tail(text))

\* re.sub(<placeholder regex of category kind>, r"![[\2.ext]]", text)
SubPlaceholders(text, kind, ext) ==
    [n \in DOMAIN text |->
        IF text[n].k = kind THEN S("![[" \o text[n].a \o "." \o ext \o "]]") ELSE text[n]]

\* the extension a descriptor's file and embed get (utils.py:218, 243, 264, 288)
ExtOf(kind, desc) == IF kind = "pdf" THEN "pdf" ELSE IF kind = "audio" THEN "m4a" ELSE desc.type

\* the for loop of one category over the text: one re.sub per descriptor
RECURSIVE RewriteCategory(_, _, _)
RewriteCategory(text, kind, descs) ==
    IF descs = <<>> THEN text
    ELSE RewriteCategory(SubPlaceholders(text, kind, ExtOf(kind, Head(descs))),
                         kind, Tail(descs))

\* the for loop of one category over the files: rename md5.ext to identifier.ext
RECURSIVE RenameCategory(_, _, _, _)
RenameCategory(files, dir, kind, descs) ==
    IF descs = <<>> THEN files
    ELSE LET ext      == ExtOf(kind, Head(descs))
             original == <<dir, Head(descs).md5 \o "." \o ext>>
             renamed  == <<dir, Head(descs).identifier \o "." \o ext>>
         IN RenameCategory(IF original \in files
                           THEN (files \ {original}) \cup {renamed} ELSE files,
                           dir, kind, Tail(descs))

\* category: JSON key, directory, chunk kind, in the order of utils.py:215-308
Categories ==
    <<[key |-> "photos", dir |-> "photos", kind |-> "photo"],
      [key |-> "pdfAttachments", dir |-> "pdfs", kind |-> "pdf"],
      [key |-> "audios", dir |-> "audios", kind |-> "audio"],
      [key |-> "videos", dir |-> "videos", kind |-> "video"]>>

RECURSIVE RewriteAttachments(_, _, _)
RewriteAttachments(text, entry, cats) ==
    IF cats = <<>> THEN text
    ELSE RewriteAttachments(
             IF Head(cats).key \in DOMAIN entry
             THEN RewriteCategory(text, Head(cats).kind, entry[Head(cats).key])
             ELSE text,
             entry, Tail(cats))

RECURSIVE RenameAttachments(_, _, _)
RenameAttachments(files, entry, cats) ==
    IF cats = <<>> THEN files
    ELSE RenameAttachments(
             IF Head(cats).key \in DOMAIN entry
             THEN RenameCategory(files, Head(cats).dir, Head(cats).kind, entry[Head(cats).key])
             ELSE files,
             entry, Tail(cats))

\* new_text of utils.py:203-310
NewText(entry) == RewriteAttachments(Sanitize(entry.text), entry, Categories)

(***************************************************************************)
(* process_journal: building one entry (utils.py:171-313)                  *)
(***************************************************************************)
YamlNames == {"location", "places", "tags"}

\* the front matter lines of utils.py:184-191; the three names are lower
\* case without spaces, so name.lower().replace(' ', '_') leaves them as is
YamlBlock(metadata) ==
    LET named == SelectSeq(metadata, LAMBDA f : f.key \in YamlNames)
    IN <<S("---\n")>>
       \o [n \in DOMAIN named |-> S(named[n].key \o ": " \o named[n].value \o "\n")]
       \o <<S("---\n\n")>>

\* the inline lines of utils.py:195-199, after metadata.pop("uuid")
InlineBlock(metadata) ==
    LET rest == Pop(metadata, "uuid")
    IN <<S("up:: [[Day One MOC]]\n")>>
       \o [n \in DOMAIN rest |-> S(rest[n].key \o ":: " \o rest[n].value \o "\n")]
       \o <<S("\n\n")>>

\* the body and the hidden uuid of utils.py:202-316; nothing on KeyError
BodyBlock(entry) ==
    IF "text" \in DOMAIN entry
    THEN NewText(entry) \o <<S("\n\n%%\nuuid:: " \o entry.uuid \o "\n")>>
    ELSE <<>>

NewEntry(entry, metadata, withYaml) ==
    (IF withYaml THEN YamlBlock(metadata) ELSE <<>>)
    \o InlineBlock(metadata) \o BodyBlock(entry)

(***************************************************************************)
(* entry.py: the Entry class.  An Entry is a record of its attributes; a   *)
(* metadata value is [key, value, str, ws]: its text as an f-string prints *)
(* it, whether it is a str, and whether it holds a whitespace character.   *)
(* kwargs is a record; an option that is not given is not in its domain.   *)
(***************************************************************************)
HasSpace(chars) == \E n \in DOMAIN chars : chars[n] = " "

EntryField(name, value, isStr, ws) == [key |-> name, value |-> value, str |-> isStr, ws |-> ws]

\* quote(value): in double quotes if a str that holds whitespace
quote(field) == IF field.str /\ field.ws THEN "\"" \o field.value \o "\"" ELSE field.value

\* the places loop of entry.py:85-91: the keys whose value is not None
RECURSIVE EntryPlaces(_, _)
EntryPlaces(loc, keys) ==
    IF keys = <<>> THEN <<>>
    ELSE (IF Head(keys) \in DOMAIN loc THEN <<loc[Head(keys)]>> ELSE <<>>)
         \o EntryPlaces(loc, Tail(keys))

\* entry_location.get(gps, None) as an f-string prints it
Gps(loc, gps) == IF gps \in DOMAIN loc THEN Str(loc[gps]) ELSE "None"

\* the f-string of entry.py:98-107, with the bytes the source file holds
EntryWeatherStr(weather) ==
    weather.conditionsDescription \o ", " \o Tenths(weather.temperatureCelsius)
        \o "<U+00C2><U+00B0>C, " \o Tenths(weather.windSpeedKPH) \o " km/h wind"

\* the iteration orders of a Python set
Orders(set) == {order \in [1..Cardinality(set) -> set] : Range(order) = set}

\* entry.py:114-143: general tags, status tags and extra tags; general and
\* status are the two sets of entry.py:122-133 in the order they are iterated
EntryTagList(kwargs, general, status) ==
    [n \in DOMAIN general |-> capwords(kwargs.tag_prefix \o <<"/">> \o general[n])]
    \o [n \in DOMAIN status |-> capwords(kwargs.status_prefix \o <<"/">> \o status[n])]
    \o (IF "extra_tags" \in DOMAIN kwargs THEN kwargs.extra_tags ELSE <<>>)

\* kwargs.get(name) or set()
KwSet(kwargs, name) == IF name \in DOMAIN kwargs THEN kwargs[name] ELSE {}

\* (entry_tags - set(ignore_tags)) - set(status_tags), entry.py:122
GeneralTags(entry, kwargs) ==
    IF "tags" \in DOMAIN entry
    THEN (Range(entry.tags) \ KwSet(kwargs, "ignore_tags")) \ KwSet(kwargs, "status_tags")
    ELSE {}

\* entry_tags & status_tags, entry.py:126
StatusTags(entry, kwargs) ==
    IF "tags" \in DOMAIN entry
    THEN Range(entry.tags) \cap KwSet(kwargs, "status_tags")
    ELSE {}

\* the pop loop of entry.py:150-153
RECURSIVE PopAll(_, _)
PopAll(dict, keys) ==
    IF keys = <<>> THEN dict ELSE PopAll(Pop(dict, Head(keys)), Tail(keys))

\* Entry.__retreive_metadata: self.metadata
Entry_retreive_metadata(uuid, local_date, entry, kwargs, general, status) ==
    LET loc    == entry.location
        places == EntryPlaces(loc, PlaceKeys)
        tags   == EntryTagList(kwargs, general, status)
        all    ==
            <<EntryField("created", isoformat(local_date), TRUE, FALSE)>>
            \o (IF "location" \in DOMAIN entry
                THEN <<EntryField("place",
                                  Join(", ", [n \in DOMAIN places |-> Str(places[n])]),
                                  TRUE,
                                  Len(places) > 1 \/ \E n \in DOMAIN places : HasSpace(places[n])),
                       EntryField("lat", Gps(loc, "latitude"), FALSE, FALSE),
                       EntryField("lon", Gps(loc, "longitude"), FALSE, FALSE)>>
                ELSE <<>>)
            \o (IF HasWeather(entry)
                THEN <<EntryField("weather", EntryWeatherStr(entry.weather), TRUE, TRUE)>>
                ELSE <<>>)
            \o (IF "journal_name" \in DOMAIN kwargs
                THEN <<EntryField("journal", kwargs.journal_name, TRUE, FALSE)>>
                ELSE <<>>)
            \o <<EntryField("favorite",
                            IF "starred" \in DOMAIN entry /\ entry.starred
                            THEN "True" ELSE "False",
                            FALSE, FALSE)>>
            \o (IF uuid # "None"
                THEN <<EntryField("url", "[DayOne](dayone://view?entryId=" \o uuid \o ")",
                                  TRUE, FALSE)>>
                ELSE <<>>)
            \o (IF tags # <<>>
                THEN <<EntryField("tags",
                                  Join(", ", [n \in DOMAIN tags |-> Str(tags[n])]),
                                  TRUE,
                                  Len(tags) > 1 \/ \E n \in DOMAIN tags : HasSpace(tags[n]))>>
                ELSE <<>>)
    IN IF "ignore_fields" \in DOMAIN kwargs THEN PopAll(all, kwargs.ignore_fields) ELSE all

\* Entry.from_json_entry: the new Entry, every other attribute at its default
from_json_entry(json_entry, kwargs, general, status) ==
    LET uuid          == IF "uuid" \in DOMAIN json_entry THEN json_entry.uuid ELSE "None"
        creation_date == json_entry.creationDate
        local_date    == astimezone(creation_date, json_entry.timeZone)
    IN [uuid |-> uuid,
        creation_date |-> creation_date,
        local_date |-> local_date,
        has_yaml |-> FALSE,
        yaml_fields |-> <<>>,
        yaml |-> <<>>,
        metadata |-> Entry_retreive_metadata(uuid, local_date, json_entry, kwargs,
                                             general, status),
        text |-> ""]

\* the Entries from_json_entry can return, one for each iteration order of
\* the two tag sets
Entries(json_entry, kwargs) ==
    {from_json_entry(json_entry, kwargs, general, status) :
        general \in Orders(GeneralTags(json_entry, kwargs)),
        status \in Orders(StatusTags(json_entry, kwargs))}

\* str.lower on the field names given as yaml_fields
LowerNames ==
    [name \in {"Tags", "Place", "tags", "place", "created", "favorite", "lat"} |->
        CASE name = "Tags" -> "tags" [] name = "Place" -> "place" [] OTHER -> name]

\* entry.has_yaml = ...; entry.yaml_fields = ... (the converter of entry.py:33-35)
SetYaml(self, has_yaml, yaml_fields) ==
    [self EXCEPT !.has_yaml = has_yaml,
                 !.yaml_fields = [n \in DOMAIN yaml_fields |-> LowerNames[yaml_fields[n]]]]

\* "\n".join(lines), one chunk a line
JoinLines(lines) ==
    [n \in DOMAIN lines |-> S(lines[n] \o (IF n < Len(lines) THEN "\n" ELSE ""))]

\* name in self.yaml_fields
InYamlFields(self, name) == name \in Range(self.yaml_fields)

\* entry.py:42-51: self.yaml after __str__; the metadata keys are lower case
\* without spaces, so name.lower().replace(' ', '-') leaves them as they are
Entry_yaml(self) ==
    IF self.has_yaml
    THEN LET named == SelectSeq(self.metadata, LAMBDA f : InYamlFields(self, f.key))
         IN <<S("---\n")>>
            \o JoinLines([n \in DOMAIN named |-> named[n].key \o ": " \o quote(named[n])])
            \o <<S("\n---\n")>>
    ELSE self.yaml

\* Entry.__str__: the string it returns
Entry_str(self) ==
    LET inline == SelectSeq(self.metadata, LAMBDA f : ~InYamlFields(self, f.key))
    IN Entry_yaml(self)
       \o <<S("\n")>>
       \o JoinLines([n \in DOMAIN inline |-> inline[n].key \o ":: " \o inline[n].value])
       \o <<S("\n\n---\n\n" \o self.text \o "\n")>>

(***************************************************************************)
(* process_journal: paths and the collision handling (utils.py:134-355)    *)
(***************************************************************************)
\* journal.stem.lower()
journal_name(file) == Str([n \in DOMAIN file |-> lower(file[n])])

journal_folder(file) == <<journal_name(file)>>

year_dir(file, creation_date) == journal_folder(file) \o <<IntStr(creation_date.year)>>

month_dir(file, creation_date) == year_dir(file, creation_date) \o <<strftimeYm(creation_date)>>

\* a target file: its directory, its stem and its name, stem + ".md"
TargetFile(dir, stem) == [dir |-> dir, stem |-> stem, name |-> stem \o ".md"]

PathOf(target_file) == target_file.dir \o <<target_file.name>>

\* chr(index) for the printable codes from 97 on
Ascii97 == <<"a","b","c","d","e","f","g","h","i","j","k","l","m",
             "n","o","p","q","r","s","t","u","v","w","x","y","z","{","|","}","~">>
AsciiA == 97
chr(index) == Ascii97[index - AsciiA + 1]

\* a variant of NextIndex without the while loop: always the first letter
NextIndexStuck(dict, file_date_format, index) == index

\* the while loop of utils.py:340-344: the first index whose stem is unused
RECURSIVE NextIndex(_, _, _)
NextIndex(dict, file_date_format, index) ==
    IF (file_date_format \o chr(index)) \in Keys(dict)
    THEN NextIndex(dict, file_date_format, index + 1)
    ELSE index

\* the separator chunk of utils.py:348
entries_separator == "---\n---"
Separator == S("\n\n" \o entries_separator \o "\n\n")

\* utils.py:328-352: the stem the entry is stored under
AssignedStem(dict, file_date_format, merge) ==
    IF file_date_format \in Keys(dict) /\ ~merge
    THEN file_date_format \o chr(NextIndex(dict, file_date_format, AsciiA))
    ELSE file_date_format

\* utils.py:333-352: entries after the entry is stored
StoreEntry(dict, file_date_format, dir, new_entry, merge) ==
    LET stem == AssignedStem(dict, file_date_format, merge)
    IN IF file_date_format \in Keys(dict) /\ merge
       THEN Put(Pop(dict, stem), stem,
                [text |-> Get(dict, stem).text \o <<Separator>> \o new_entry,
                 target_file |-> TargetFile(dir, stem)])
       ELSE Put(dict, stem, [text |-> new_entry, target_file |-> TargetFile(dir, stem)])

\* the exceptions of one loop iteration before anything is stored
EntryRaises(entry, prefix, ignored) ==
    \/ "creationDate" \notin DOMAIN entry
    \/ "timeZone" \notin DOMAIN entry
    \/ retrieve_metadataRaises(entry, prefix, ignored)

(***************************************************************************)
(* The link rewrite of the second loop (utils.py:364-379)                  *)
(***************************************************************************)
\* a variant of replace_link that drops a link it cannot resolve
replace_linkDrops(index, link_text, uuid) ==
    IF uuid \in Keys(index)
    THEN "[[" \o Get(index, uuid) \o "|" \o link_text \o "]]"
    ELSE link_text

replace_link(index, link_text, uuid) ==
    IF uuid \in Keys(index)
    THEN "[[" \o Get(index, uuid) \o "|" \o link_text \o "]]"
    ELSE "^[Linked entry with UUID <U+0060>" \o uuid \o "<U+0060> not found]"

\* re.sub(regex, replace_link, text)
SubLinks(text, index) ==
    [n \in DOMAIN text |->
        IF text[n].k = "link" THEN S(replace_link(index, text[n].a, text[n].b)) ELSE text[n]]

(***************************************************************************)
(* The file system below FOLDER.  A path is a sequence of components.      *)
(***************************************************************************)
Under(path, dir) == Len(path) >= Len(dir) /\ SubSeq(path, 1, Len(dir)) = dir

\* shutil.rmtree(dir)
RmtreeDirs(ds, dir) == {d \in ds : ~Under(d, dir)}
RmtreeFiles(files, dir) == [p \in {q \in DOMAIN files : ~Under(q, dir)} |-> files[p]]

\* open(path, "w").write(text)
WriteFile(files, path, text) ==
    [p \in DOMAIN files \cup {path} |-> IF p = path THEN text ELSE files[p]]

(***************************************************************************)
(* Actions                                                                 *)
(***************************************************************************)
\* import.py:81-91: the command is run and calls process_journal on a *.json file
Convert ==
    /\ pc \in {"idle", "done", "error"}
    /\ \E filename \in folder_json :
          journal' = filename
    /\ pc' = "setup"
    /\ error' = ""
    /\ previous' = [completed |-> pc = "done",
                    vault |-> [p \in {q \in DOMAIN vault : Under(q, journal_folder(journal'))}
                                  |-> vault[p]],
                    attachments |-> attachments]
    /\ UNCHANGED <<config, disk, i, entries, uuid_to_file, k, processed, cleared>>

\* a variant of Setup that keeps what it finds in the journal folder
SetupKeeps ==
    /\ pc = "setup"
    /\ dirs' = dirs \cup {journal_folder(journal)}
    /\ cleared' = {p \in DOMAIN vault : Under(p, journal_folder(journal))}
    /\ entries' = <<>>
    /\ uuid_to_file' = <<>>
    /\ i' = 1
    /\ k' = 1
    /\ pc' = "load"
    /\ UNCHANGED <<config, folder_json, vault, attachments, journal, error, processed, previous>>

\* utils.py:134-166: clear and create the journal folder, create the two dicts
Setup ==
    /\ pc = "setup"
    /\ dirs' = RmtreeDirs(dirs, journal_folder(journal)) \cup {journal_folder(journal)}
    /\ vault' = RmtreeFiles(vault, journal_folder(journal))
    /\ cleared' = {p \in DOMAIN vault : Under(p, journal_folder(journal))}
    /\ entries' = <<>>
    /\ uuid_to_file' = <<>>
    /\ i' = 1
    /\ k' = 1
    /\ pc' = "load"
    /\ UNCHANGED <<config, folder_json, attachments, journal, error, processed, previous>>

\* a variant of Load that reads a missing entries array as an empty one
LoadLenient ==
    /\ pc = "load"
    /\ pc' = IF "entries" \in DOMAIN data THEN "phase1" ELSE "phase2"
    /\ UNCHANGED <<config, disk, locals, error, processed, previous, cleared>>

\* utils.py:168-170: json.load and data["entries"]
Load ==
    /\ pc = "load"
    /\ IF "entries" \in DOMAIN data
       THEN pc' = "phase1" /\ error' = error
       ELSE pc' = "error" /\ error' = "KeyError"
    /\ UNCHANGED <<config, disk, locals, processed, previous, cleared>>

\* a variant of EntryAbort that skips the record and goes on with the next
EntryAbortSkips ==
    /\ pc' = pc
    /\ error' = error
    /\ i' = i + 1
    /\ UNCHANGED <<disk, journal, entries, uuid_to_file, k>>

\* utils.py:173-181: an exception of the loop body leaves process_journal
EntryAbort ==
    /\ pc' = "error"
    /\ error' = "KeyError"
    /\ UNCHANGED <<disk, locals>>

\* a variant of RegisterLink that stores the path instead of the file name
RegisterLinkPath(index, uuid, target_file) ==
    Put(index, uuid, Join("/", PathOf(target_file)))

\* utils.py:355: uuid_to_file[entry_uuid] = target_file.name
RegisterLink(index, uuid, target_file) == Put(index, uuid, target_file.name)

\* the entry with the descriptors whose hash-named file exists
OnlyRenamed(entry, files) ==
    [key \in DOMAIN entry |->
        IF \E c \in DOMAIN Categories : Categories[c].key = key
        THEN LET cat == Categories[CHOOSE c \in DOMAIN Categories : Categories[c].key = key]
             IN SelectSeq(entry[key],
                          LAMBDA d : <<cat.dir, d.md5 \o "." \o ExtOf(cat.kind, d)>> \in files)
        ELSE entry[key]]

\* a variant of ProcessEntry with each re.sub inside the exists() branch: a
\* placeholder is rewritten only when the file is renamed
ProcessEntryRewritesRenamed ==
    /\ pc = "phase1"
    /\ i <= Len(data.entries)
    /\ LET entry == data.entries[i]
       IN IF EntryRaises(entry, tag_prefix, ignore_tags)
          THEN EntryAbort
          ELSE LET creation_date    == entry.creationDate
                   local_date       == astimezone(creation_date, entry.timeZone)
                   metadata         == retrieve_metadata(entry, local_date,
                                                         tag_prefix, ignore_tags)
                   new_entry        == NewEntry(OnlyRenamed(entry, attachments), metadata, yaml)
                   file_date_format == strftimeYmd(local_date)
                   dir              == month_dir(journal, creation_date)
                   stem             == AssignedStem(entries, file_date_format, merge_entries)
               IN /\ attachments' = IF "text" \in DOMAIN entry
                                    THEN RenameAttachments(attachments, entry, Categories)
                                    ELSE attachments
                  /\ dirs' = dirs \cup {year_dir(journal, creation_date), dir}
                  /\ entries' = StoreEntry(entries, file_date_format, dir,
                                           new_entry, merge_entries)
                  /\ uuid_to_file' = RegisterLink(uuid_to_file, entry.uuid,
                                                  TargetFile(dir, stem))
                  /\ i' = i + 1
                  /\ pc' = pc
                  /\ error' = error
                  /\ UNCHANGED <<folder_json, vault, journal, k>>
    /\ UNCHANGED <<config, processed, previous, cleared>>

\* utils.py:170-355: one iteration of the first loop
ProcessEntry ==
    /\ pc = "phase1"
    /\ i <= Len(data.entries)
    /\ LET entry == data.entries[i]
       IN IF EntryRaises(entry, tag_prefix, ignore_tags)
          THEN EntryAbort
          ELSE LET creation_date    == entry.creationDate
                   local_date       == astimezone(creation_date, entry.timeZone)
                   metadata         == retrieve_metadata(entry, local_date,
                                                         tag_prefix, ignore_tags)
                   new_entry        == NewEntry(entry, metadata, yaml)
                   file_date_format == strftimeYmd(local_date)
                   dir              == month_dir(journal, creation_date)
                   stem             == AssignedStem(entries, file_date_format, merge_entries)
               IN /\ attachments' = IF "text" \in DOMAIN entry
                                    THEN RenameAttachments(attachments, entry, Categories)
                                    ELSE attachments
                  /\ dirs' = dirs \cup {year_dir(journal, creation_date), dir}
                  /\ entries' = StoreEntry(entries, file_date_format, dir,
                                           new_entry, merge_entries)
                  /\ uuid_to_file' = RegisterLink(uuid_to_file, entry.uuid,
                                                  TargetFile(dir, stem))
                  /\ i' = i + 1
                  /\ pc' = pc
                  /\ error' = error
                  /\ UNCHANGED <<folder_json, vault, journal, k>>
    /\ UNCHANGED <<config, processed, previous, cleared>>

\* a variant of EndPhase1 that leaves the first loop one record early
EndPhase1Early ==
    /\ pc = "phase1"
    /\ i >= Len(data.entries)
    /\ pc' = "phase2"
    /\ k' = 1
    /\ UNCHANGED <<config, disk, journal, i, entries, uuid_to_file, error, processed, previous,
                   cleared>>

\* utils.py:357-371: the first loop is over
EndPhase1 ==
    /\ pc = "phase1"
    /\ i > Len(data.entries)
    /\ pc' = "phase2"
    /\ k' = 1
    /\ UNCHANGED <<config, disk, journal, i, entries, uuid_to_file, error, processed, previous,
                   cleared>>

\* utils.py:373-382: one iteration of the second loop
WriteEntry ==
    /\ pc = "phase2"
    /\ k <= Len(entries)
    /\ LET target_file == entries[k].value.target_file
           joined      == entries[k].value.text
           text        == IF convert_links THEN SubLinks(joined, uuid_to_file) ELSE joined
       IN IF target_file.dir \in dirs
          THEN /\ vault' = WriteFile(vault, PathOf(target_file), text)
               /\ k' = k + 1
               /\ pc' = pc
               /\ error' = error
          ELSE /\ pc' = "error"
               /\ error' = "FileNotFoundError"
               /\ UNCHANGED <<vault, k>>
    /\ UNCHANGED <<config, folder_json, dirs, attachments, journal, i, entries,
                   uuid_to_file, processed, previous, cleared>>

\* a variant of Finish that renames the journal file so that *.json misses it
FinishRenamed ==
    /\ pc = "phase2"
    /\ k > Len(entries)
    /\ pc' = "done"
    /\ processed' = TRUE
    /\ folder_json' = folder_json \ {journal}
    /\ UNCHANGED <<config, dirs, vault, attachments, locals, error, cleared, previous>>

\* utils.py:384 and import.py:81-91: process_journal returns, the command ends
Finish ==
    /\ pc = "phase2"
    /\ k > Len(entries)
    /\ pc' = "done"
    /\ processed' = TRUE
    /\ UNCHANGED <<config, disk, locals, error, cleared, previous>>

Next == Convert \/ Setup \/ Load \/ ProcessEntry \/ EndPhase1 \/ WriteEntry \/ Finish

(***************************************************************************)
(* Inputs.  The n-th record of a journal has the n-th identifier (Day One  *)
(* identifiers are unique).  A profile names the part of the input that    *)
(* varies:                                                                 *)
(*   "main"         dates and time zones, records without text, malformed  *)
(*                  records                                                *)
(*   "links"        links between the records                              *)
(*   "attachments"  attachment descriptors and placeholders                *)
(*   "tags"         tags, the starred flag, a place and weather            *)
(***************************************************************************)
UUIDs == <<"0A", "1B", "2C", "3D", "4E", "5F">>

D0430 == [year |-> 2023, month |-> 4, day |-> 30, hour |-> 23, offset |-> 0]
D0501 == [year |-> 2023, month |-> 5, day |-> 1, hour |-> 10, offset |-> 0]
D0502 == [year |-> 2023, month |-> 5, day |-> 2, hour |-> 10, offset |-> 0]

Base(u, c, tz) == [uuid |-> u, creationDate |-> c, timeZone |-> tz, starred |-> FALSE]

WithText(rec, text) == rec @@ [text |-> text]

Without(rec, key) == [f \in (DOMAIN rec) \ {key} |-> rec[f]]

TextOf(u) == <<S("text of " \o u)>>

MainRecords(u) ==
    {WithText(Base(u, D0430, "Europe/Rome"), TextOf(u)),
     WithText(Base(u, D0501, "UTC"), TextOf(u)),
     WithText(Base(u, D0502, "UTC"), TextOf(u)),
     Base(u, D0501, "UTC"),
     Without(WithText(Base(u, D0501, "UTC"), TextOf(u)), "uuid"),
     Without(WithText(Base(u, D0501, "UTC"), TextOf(u)), "creationDate"),
     Without(WithText(Base(u, D0501, "UTC"), TextOf(u)), "timeZone")}

\* "links": every text holds a link to the first or second record of the
\* journal, or to an identifier no record has
Unknown == "FF"

LinkText(u, target) ==
    <<S("text of " \o u), Chunk("link", "link of " \o u, target)>>

LinkRecords(u) ==
    {WithText(Base(u, c, "UTC"), LinkText(u, target)) :
        c \in {D0501, D0502}, target \in {UUIDs[1], UUIDs[2], Unknown}}

\* "attachments": photos, one or two, of two types; a PDF beside a photo; a
\* video and an audio in a text with the characters the clean-up removes
Desc(hash, id, type) == [md5 |-> hash, identifier |-> id, type |-> type]
DescNoType(hash, id) == [md5 |-> hash, identifier |-> id]

AttachmentRecords(u) ==
    {WithText(Base(u, D0501, "UTC"), <<Chunk("photo", "A" \o u, "")>>)
         @@ [photos |-> <<Desc("H" \o u, "A" \o u, "jpg")>>],
     WithText(Base(u, D0501, "UTC"),
              <<Chunk("photo", "A" \o u, ""), Chunk("photo", "B" \o u, "")>>)
         @@ [photos |-> <<Desc("H" \o u, "A" \o u, "jpg"), Desc("G" \o u, "B" \o u, "png")>>],
     WithText(Base(u, D0501, "UTC"),
              <<Chunk("photo", "A" \o u, ""), Chunk("pdf", "A" \o u, "")>>)
         @@ [photos |-> <<Desc("H" \o u, "A" \o u, "jpg")>>,
             pdfAttachments |-> <<DescNoType("G" \o u, "A" \o u)>>],
     WithText(Base(u, D0501, "UTC"),
              <<Chunk("bs", "", ""), Chunk("video", "C" \o u, ""), Chunk("ls", "", ""),
                Chunk("audio", "D" \o u, ""), Chunk("ps", "", ""), Chunk("zw", "", ""),
                Chunk("fence", "", ""), Chunk("photo", "E" \o u, "")>>)
         @@ [videos |-> <<Desc("H" \o u, "C" \o u, "mov")>>,
             audios |-> <<DescNoType("G" \o u, "D" \o u)>>]}

\* "tags": tagged, untagged and starred records, one with a place and weather
Travel == <<"T", "r", "a", "v", "e", "l">>
HelloWorld == <<"h", "e", "l", "l", "o", " ", "w", "o", "r", "l", "d">>

Place ==
    [placeName |-> <<"c", "a", "f", "e">>,
     localityName |-> <<"n", "e", "w", " ", "t", "o", "w", "n">>,
     country |-> <<"I", "T">>,
     latitude |-> <<"4", "5", ".", "5">>,
     longitude |-> <<"9", ".", "2">>]

Weather ==
    [conditionsDescription |-> "Clear", temperatureCelsius |-> 215, windSpeedKPH |-> 80]

TagRecords(u) ==
    {WithText(Base(u, D0501, "UTC"), TextOf(u)) @@ [tags |-> <<Travel>>],
     WithText(Base(u, D0502, "UTC"), TextOf(u)),
     [WithText(Base(u, D0430, "Europe/Rome"), TextOf(u)) EXCEPT !.starred = TRUE]
         @@ [tags |-> <<HelloWorld, Travel>>],
     WithText(Base(u, D0502, "UTC"), TextOf(u)) @@ [location |-> Place, weather |-> Weather]}

Records(profile, u) ==
    CASE profile = "main" -> MainRecords(u)
      [] profile = "links" -> LinkRecords(u)
      [] profile = "attachments" -> AttachmentRecords(u)
      [] profile = "tags" -> TagRecords(u)

RECURSIVE RecordSeqs(_, _)
RecordSeqs(profile, n) ==
    IF n = 0 THEN {<<>>}
    ELSE {Append(s, r) : s \in RecordSeqs(profile, n - 1), r \in Records(profile, UUIDs[n])}

\* the documents of a profile, and one document without the entries array
Documents(profile) ==
    {[entries |-> s] : s \in UNION {RecordSeqs(profile, n) : n \in 0..MaxEntries}}
    \cup {[metadata |-> "1.0"]}

JournalFile == <<"J", "o", "u", "r", "n", "a", "l">>

DefaultPrefix == <<"#", "o", "n", "/">>

\* what a run may find below FOLDER: nothing, or the folder of an earlier run
NoFiles == [p \in {} |-> <<>>]
StaleDirs == {<<"journal">>, <<"journal", "2023">>, <<"journal", "2023", "2023-05">>}
StalePath == <<"journal", "2023", "2023-05", "2023-05-01a.md">>
StaleFiles == [p \in {StalePath} |-> <<S("stale")>>]
NoPrior == [dirs |-> {}, vault |-> NoFiles]
StalePrior == [dirs |-> StaleDirs, vault |-> StaleFiles]

\* the attachment files of a document, under their hash names
HashFiles(doc) ==
    IF "entries" \notin DOMAIN doc THEN {}
    ELSE UNION {UNION {{<<Categories[c].dir,
                          doc.entries[n][Categories[c].key][d].md5 \o "."
                              \o ExtOf(Categories[c].kind,
                                       doc.entries[n][Categories[c].key][d])>> :
                            d \in DOMAIN doc.entries[n][Categories[c].key]} :
                        c \in {x \in DOMAIN Categories :
                                  Categories[x].key \in DOMAIN doc.entries[n]}} :
                n \in DOMAIN doc.entries}

\* no run before the first one
NoRun == [completed |-> FALSE, vault |-> NoFiles, attachments |-> {}]

InitWith(profile, merges, links, yamls, ignores, priors, withFiles) ==
    /\ data \in Documents(profile)
    /\ tag_prefix = DefaultPrefix
    /\ convert_links \in links
    /\ yaml \in yamls
    /\ merge_entries \in merges
    /\ ignore_tags \in ignores
    /\ folder_json = {JournalFile}
    /\ \E prior \in priors : dirs = prior.dirs /\ vault = prior.vault
    /\ \E present \in withFiles : attachments = IF present THEN HashFiles(data) ELSE {}
    /\ pc = "idle"
    /\ journal = JournalFile
    /\ i = 1
    /\ entries = <<>>
    /\ uuid_to_file = <<>>
    /\ k = 1
    /\ error = ""
    /\ processed = FALSE
    /\ cleared = {}
    /\ previous = NoRun

Init == InitWith("main", BOOLEAN, {FALSE}, {FALSE}, {{}}, {NoPrior, StalePrior}, {FALSE})

Spec == Init /\ [][Next]_vars

InitLinks == InitWith("links", BOOLEAN, {TRUE}, {FALSE}, {{}}, {NoPrior}, {FALSE})

SpecLinks == InitLinks /\ [][Next]_vars

InitAttachments ==
    InitWith("attachments", {FALSE}, {FALSE}, {FALSE}, {{}}, {NoPrior}, BOOLEAN)

SpecAttachments == InitAttachments /\ [][Next]_vars

InitTags == InitWith("tags", {FALSE}, {FALSE}, BOOLEAN, {{}, {Travel}}, {NoPrior}, {FALSE})

SpecTags == InitTags /\ [][Next]_vars

\* "capwords": a journal of one record with one tag, the tag any string of at
\* most MaxTagLen characters over a lower-case letter, an upper-case letter,
\* a digit and the space; the tag prefix is the default one or empty
TagChars == {"a", "B", "1", " "}

TagStrings == UNION {[1..n -> TagChars] : n \in 1..MaxTagLen}

CapwordsDocuments ==
    {[entries |-> <<WithText(Base(UUIDs[1], D0501, "UTC"), TextOf(UUIDs[1]))
                        @@ [tags |-> <<t>>]>>] : t \in TagStrings}
    \cup {[entries |-> <<>>]}

InitCapwords ==
    /\ data \in CapwordsDocuments
    /\ tag_prefix \in {DefaultPrefix, <<>>}
    /\ convert_links = FALSE
    /\ yaml = FALSE
    /\ merge_entries = FALSE
    /\ ignore_tags = {}
    /\ folder_json = {JournalFile}
    /\ dirs = {}
    /\ vault = NoFiles
    /\ attachments = {}
    /\ pc = "idle"
    /\ journal = JournalFile
    /\ i = 1
    /\ entries = <<>>
    /\ uuid_to_file = <<>>
    /\ k = 1
    /\ error = ""
    /\ processed = FALSE
    /\ cleared = {}
    /\ previous = NoRun

SpecCapwords == InitCapwords /\ [][Next]_vars

(***************************************************************************)
(* Properties                                                              *)
(***************************************************************************)
Running == pc \in {"phase1", "phase2", "done"}

\* the records the first loop has stored, by index
Stored == 1..(i - 1)

LocalDate(n) ==
    strftimeYmd(astimezone(data.entries[n].creationDate, data.entries[n].timeZone))

\* the earlier records on the same local date
Before(n) == {m \in 1..(n - 1) : LocalDate(m) = LocalDate(n)}

SameDate(n) == {m \in 1..Len(data.entries) : LocalDate(m) = LocalDate(n)}

\* date, date + "a", date + "b", ... by the number of earlier records on the date
ExpectedStem(n) ==
    IF Before(n) = {} THEN LocalDate(n)
    ELSE LocalDate(n) \o LowerCase[Cardinality(Before(n))]

\* what one record alone is written as
OwnEntry(n) ==
    NewEntry(data.entries[n],
             retrieve_metadata(data.entries[n],
                               astimezone(data.entries[n].creationDate,
                                          data.entries[n].timeZone),
                               tag_prefix, ignore_tags),
             yaml)

JournalPaths == {p \in DOMAIN vault : Under(p, journal_folder(journal))}

TargetPaths == {PathOf(entries[n].value.target_file) : n \in DOMAIN entries}

\* C1: with merge disabled the records of one local date get the stems date,
\* date + "a", date + "b", ... in source order, all stems of the output index
\* differ, and every record is written to a file of its own.
C1_CollisionSuffixes ==
    (Running /\ ~merge_entries) =>
        /\ Len(entries) = i - 1
        /\ \A n \in Stored :
              /\ entries[n].key = ExpectedStem(n)
              /\ entries[n].value.target_file.name = ExpectedStem(n) \o ".md"
              /\ Get(uuid_to_file, data.entries[n].uuid) = ExpectedStem(n) \o ".md"
        /\ \A m, n \in Stored :
              m # n => /\ entries[m].key # entries[n].key
                       /\ PathOf(entries[m].value.target_file)
                              # PathOf(entries[n].value.target_file)
        /\ pc = "done" =>
              /\ Cardinality(JournalPaths) = Len(data.entries)
              /\ \A n \in Stored :
                    /\ PathOf(entries[n].value.target_file) \in DOMAIN vault
                    /\ ~convert_links =>
                          vault[PathOf(entries[n].value.target_file)] = OwnEntry(n)

C1_Witness ==
    /\ pc = "done"
    /\ ~merge_entries
    /\ Len(data.entries) = 3
    /\ Cardinality(SameDate(1)) = 3
    /\ entries[3].key = LocalDate(1) \o "b"
    /\ Cardinality(JournalPaths) = 3

\* the body chunks and separators of a merged file that the records m..n of
\* one date must give, in source order
RECURSIVE MergedTexts(_, _)
MergedTexts(ns, first) ==
    IF ns = {} THEN <<>>
    ELSE LET n == CHOOSE x \in ns : \A y \in ns : x <= y
         IN (IF first THEN <<>> ELSE <<Separator>>)
            \o (IF "text" \in DOMAIN data.entries[n] THEN data.entries[n].text ELSE <<>>)
            \o MergedTexts(ns \ {n}, FALSE)

IsBodyChunk(c) ==
    \/ c = Separator
    \/ \E n \in 1..Len(data.entries) :
          "text" \in DOMAIN data.entries[n] /\ c \in Range(data.entries[n].text)

IsDatesLine(c) == \E n \in 1..Len(data.entries) :
    c = S("dates:: " \o isoformat(astimezone(data.entries[n].creationDate,
                                             data.entries[n].timeZone)) \o "\n")

\* the file the records of the local date of record n are merged into
MergedFile(n) == CHOOSE p \in JournalPaths : p[Len(p)] = LocalDate(n) \o ".md"

\* the first two parts of C2: one file per date, holding the texts of the
\* records of the date in source order with the separator between them
C2_MergedBody ==
    (pc = "done" /\ merge_entries) =>
        /\ Cardinality(JournalPaths) = Cardinality({LocalDate(n) : n \in Stored})
        /\ \A n \in Stored :
              /\ Cardinality({p \in JournalPaths : p[Len(p)] = LocalDate(n) \o ".md"}) = 1
              /\ SelectSeq(vault[MergedFile(n)], IsBodyChunk)
                     = MergedTexts(SameDate(n), TRUE)

\* the last part of C2: the merged file keeps no date field of a superseded
\* record, so it holds one dates line
C2_NoSupersededDate ==
    (pc = "done" /\ merge_entries) =>
        \A n \in Stored : Len(SelectSeq(vault[MergedFile(n)], IsDatesLine)) <= 1

\* C2: with merge enabled the records of one local date are written as one
\* file, whose body holds every record's text in source order with the
\* separator between consecutive records, and which keeps no created/date
\* field of a superseded record.
C2_MergeOneFile == C2_MergedBody /\ C2_NoSupersededDate

\* C5: no entry file is written and no link is resolved before every record
\* has its final path and is registered in the link index, and neither the
\* link index nor the output index changes once the second loop has started.
C5_PhasesSequential ==
    [][/\ (vault' # vault /\ pc # "setup") =>
              /\ pc = "phase2"
              /\ i > Len(data.entries)
              /\ \A n \in 1..Len(data.entries) :
                    data.entries[n].uuid \in Keys(uuid_to_file)
       /\ pc = "phase2" => (uuid_to_file' = uuid_to_file /\ entries' = entries)
       /\ pc = "phase1" => vault' = vault]_vars

C5_Witness ==
    /\ pc = "phase2"
    /\ Len(data.entries) >= 2
    /\ k = 2
    /\ Cardinality(JournalPaths) = 1

\* C6 as stated: once a journal is processed its source file is renamed, so
\* a repeated run does not process it again.
C6_SourceConsumed == processed => (journal \notin folder_json /\ ~ENABLED Convert)

\* C6 as amended: the source file stays in place under its own name, and a
\* repeated run processes the journal again.
C6_SourceKept ==
    /\ folder_json = {JournalFile}
    /\ pc = "done" => ENABLED Convert

C6_Witness ==
    /\ processed
    /\ pc = "phase2"
    /\ k > 1
    /\ cleared # {}

\* C7: an output folder left by an earlier run is cleared before any record
\* is processed, and after the run it holds exactly the files of this run's
\* output index, each with this run's content.
C7_FolderCleared ==
    /\ pc \in {"load", "phase1"} => JournalPaths = {}
    /\ pc = "done" =>
          /\ JournalPaths = TargetPaths
          /\ \A n \in DOMAIN entries :
                ~convert_links =>
                    vault[PathOf(entries[n].value.target_file)] = entries[n].value.text

C7_Witness ==
    /\ pc = "done"
    /\ StalePath \in cleared
    /\ StalePath \notin DOMAIN vault
    /\ JournalPaths # {}

Malformed(doc) ==
    \/ "entries" \notin DOMAIN doc
    \/ \E n \in 1..Len(doc.entries) :
          ~({"uuid", "creationDate", "timeZone"} \subseteq DOMAIN doc.entries[n])

\* C8: a journal with a record that lacks its identifier, creation date or
\* time zone, or without the entries array, ends in an error; no entry file
\* of it is written, also not for the records before the malformed one, and
\* the source file keeps its name.
C8_MalformedAborts ==
    (Malformed(data) /\ pc \notin {"idle", "setup"}) =>
        /\ pc \in {"load", "phase1", "error"}
        /\ JournalPaths = {}
        /\ folder_json = {JournalFile}
        /\ pc = "error" => error = "KeyError"
        /\ "entries" \in DOMAIN data =>
              \A n \in Stored :
                  {"uuid", "creationDate", "timeZone"} \subseteq DOMAIN data.entries[n]

C8_Witness ==
    /\ pc = "error"
    /\ "entries" \in DOMAIN data
    /\ i = 3
    /\ Len(entries) = 2
    /\ JournalPaths = {}
    /\ StalePath \in cleared

RecordUuids == {data.entries[n].uuid : n \in 1..Len(data.entries)}

\* the hidden uuid line that ends a record's body
Footer(u) == S("\n\n%%\nuuid:: " \o u \o "\n")

\* the files a record's content is written to
FilesOf(u) == {p \in JournalPaths : Footer(u) \in Range(vault[p])}

LinksOf(n) == {c \in Range(data.entries[n].text) : c.k = "link"}

\* C3: with link conversion enabled, a link of record A to the identifier of
\* record B of the journal is written as [[name|link text]], name being the
\* name of the one file that B's content is written to.
C3_LinkResolved ==
    (pc = "done" /\ convert_links) =>
        \A n \in 1..Len(data.entries) : \A c \in LinksOf(n) :
            c.b \in RecordUuids =>
                /\ Cardinality(FilesOf(c.b)) = 1
                /\ Cardinality(FilesOf(data.entries[n].uuid)) = 1
                /\ \A pa \in FilesOf(data.entries[n].uuid) : \A pb \in FilesOf(c.b) :
                      S("[[" \o pb[Len(pb)] \o "|" \o c.a \o "]]") \in Range(vault[pa])

\* the first record links to the second, which is stored under a suffix
C3_Witness ==
    /\ pc = "done"
    /\ convert_links
    /\ ~merge_entries
    /\ Len(data.entries) >= 2
    /\ LocalDate(1) = LocalDate(2)
    /\ Chunk("link", "link of " \o UUIDs[1], UUIDs[2]) \in Range(data.entries[1].text)
    /\ S("[[2023-05-01a.md|link of " \o UUIDs[1] \o "]]")
           \in Range(vault[<<"journal", "2023", "2023-05", "2023-05-01.md">>])

NotFound(u) == S("^[Linked entry with UUID <U+0060>" \o u \o "<U+0060> not found]")

\* C4: with link conversion enabled, a link to an identifier that is no key
\* of the link index is written as the "not found" marker naming it; the run
\* does not end in an error, the entry is written, and no link is left in
\* its Day One form.
C4_LinkNotFound ==
    (convert_links /\ "entries" \in DOMAIN data) =>
        /\ pc # "error"
        /\ pc = "done" =>
              /\ \A n \in 1..Len(data.entries) : \A c \in LinksOf(n) :
                    c.b \notin RecordUuids =>
                        /\ FilesOf(data.entries[n].uuid) # {}
                        /\ \A pa \in FilesOf(data.entries[n].uuid) :
                              NotFound(c.b) \in Range(vault[pa])
              /\ \A p \in JournalPaths : \A c \in Range(vault[p]) : c.k # "link"

C4_Witness ==
    /\ pc = "done"
    /\ convert_links
    /\ Len(data.entries) = 2
    /\ Chunk("link", "link of " \o UUIDs[2], Unknown) \in Range(data.entries[2].text)
    /\ \E p \in JournalPaths : NotFound(Unknown) \in Range(vault[p])

\* the descriptors of record n: [cat, desc] for every category it has
DescriptorsOf(n) ==
    UNION {{[cat |-> Categories[c], desc |-> data.entries[n][Categories[c].key][d]] :
               d \in DOMAIN data.entries[n][Categories[c].key]} :
           c \in {x \in DOMAIN Categories : Categories[x].key \in DOMAIN data.entries[n]}}

HashName(x) == <<x.cat.dir, x.desc.md5 \o "." \o ExtOf(x.cat.kind, x.desc)>>
IdName(x) == <<x.cat.dir, x.desc.identifier \o "." \o ExtOf(x.cat.kind, x.desc)>>
Embed(id, ext) == S("![[" \o id \o "." \o ext \o "]]")

\* first part of C9: a hash-named file is named by the identifier afterwards
C9_Renamed ==
    pc = "done" =>
        \A n \in 1..Len(data.entries) : \A x \in DescriptorsOf(n) :
            /\ HashName(x) \notin attachments
            /\ attachments # {} => IdName(x) \in attachments

\* second part of C9: a placeholder that names a descriptor's identifier is
\* written as the embed with that descriptor's extension
C9_OwnExtension ==
    pc = "done" =>
        \A n \in 1..Len(data.entries) : \A x \in DescriptorsOf(n) :
            Chunk(x.cat.kind, x.desc.identifier, "") \in Range(data.entries[n].text) =>
                \A p \in FilesOf(data.entries[n].uuid) :
                    Embed(x.desc.identifier, ExtOf(x.cat.kind, x.desc)) \in Range(vault[p])

Kinds == {Categories[c].kind : c \in DOMAIN Categories}

IsPlaceholder(c) == c.k \in Kinds

IsPlaceholderOrEmbed(c) ==
    \/ c.k \in Kinds
    \/ \E n \in 1..Len(data.entries) : \E ph \in Range(data.entries[n].text) :
          \E ext \in {"jpg", "png", "pdf", "m4a", "mov"} :
              ph.k \in Kinds /\ c = Embed(ph.a, ext)

\* the extensions the rule of the category of kind can give in record n
ExtsOf(n, kind) ==
    {ExtOf(kind, x.desc) : x \in {y \in DescriptorsOf(n) : y.cat.kind = kind}}

\* third part of C9: a placeholder is left as it is or rewritten by the rule
\* of its own category
C9_NoCrossCategory ==
    pc = "done" =>
        \A n \in 1..Len(data.entries) : \A p \in FilesOf(data.entries[n].uuid) :
            LET before == SelectSeq(data.entries[n].text, IsPlaceholder)
                after  == SelectSeq(vault[p], IsPlaceholderOrEmbed)
            IN /\ Len(after) = Len(before)
               /\ \A j \in DOMAIN before :
                     \/ after[j] = before[j] /\ ExtsOf(n, before[j].k) = {}
                     \/ \E ext \in ExtsOf(n, before[j].k) : after[j] = Embed(before[j].a, ext)

\* C9: for every attachment descriptor (hash H, identifier I, extension E) of
\* a record: the file H.E is named I.E after processing, every placeholder of
\* the descriptor's category that names I is written as the embed ![[I.E]]
\* with the extension of that descriptor, and no placeholder is rewritten by
\* the rule of another category.
C9_AttachmentRewrite == C9_Renamed /\ C9_OwnExtension /\ C9_NoCrossCategory

\* the extension part of C9 for the records whose descriptors of one
\* category all have one extension
C9_OwnExtensionOneType ==
    pc = "done" =>
        \A n \in 1..Len(data.entries) : \A x \in DescriptorsOf(n) :
            (/\ Chunk(x.cat.kind, x.desc.identifier, "") \in Range(data.entries[n].text)
             /\ Cardinality(ExtsOf(n, x.cat.kind)) = 1) =>
                \A p \in FilesOf(data.entries[n].uuid) :
                    Embed(x.desc.identifier, ExtOf(x.cat.kind, x.desc)) \in Range(vault[p])

DistinctDates ==
    \A m, n \in 1..Len(data.entries) : m # n => LocalDate(m) # LocalDate(n)

\* <journal>/<year>/<year>-<month>/<YYYY-MM-DD>.md: year and month of the
\* creation date, day of the local date
ExpectedPath(n) ==
    <<"journal", IntStr(data.entries[n].creationDate.year),
      IntStr(data.entries[n].creationDate.year) \o "-"
          \o Pad2(data.entries[n].creationDate.month),
      LocalDate(n) \o ".md">>

\* one file per record, at its path, for records on distinct local dates
C10_OneFilePerRecord ==
    (pc = "done" /\ ~merge_entries /\ ~yaml /\ DistinctDates) =>
        /\ JournalPaths = {ExpectedPath(n) : n \in 1..Len(data.entries)}
        /\ Cardinality(JournalPaths) = Len(data.entries)
        /\ \A n \in 1..Len(data.entries) : FilesOf(data.entries[n].uuid) = {ExpectedPath(n)}

\* the scenario: a record of 2023-05-01 tagged Travel, an untagged and
\* unstarred record of 2023-05-02, prefix "#on/", nothing ignored
Scenario ==
    /\ "entries" \in DOMAIN data
    /\ data.entries =
          <<WithText(Base(UUIDs[1], D0501, "UTC"), TextOf(UUIDs[1])) @@ [tags |-> <<Travel>>],
            WithText(Base(UUIDs[2], D0502, "UTC"), TextOf(UUIDs[2]))>>
    /\ tag_prefix = DefaultPrefix
    /\ ignore_tags = {}
    /\ ~merge_entries
    /\ ~yaml

ScenarioFiles ==
    {<<"journal", "2023", "2023-05", "2023-05-01.md">>,
     <<"journal", "2023", "2023-05", "2023-05-02.md">>}

ScenarioWrites(line) ==
    (pc = "done" /\ Scenario) =>
        /\ JournalPaths = ScenarioFiles
        /\ S(line) \in Range(vault[<<"journal", "2023", "2023-05", "2023-05-01.md">>])

\* C10 as stated: one file per record at <journal>/<year>/<year>-<month>/
\* <YYYY-MM-DD>.md for records on distinct local dates with merge and YAML
\* disabled; in the scenario the two files are 2023/2023-05/2023-05-01.md and
\* 2023/2023-05/2023-05-02.md and the first holds the line tags:: #On/Travel.
C10_EndToEnd == C10_OneFilePerRecord /\ ScenarioWrites("tags:: #On/Travel\n")

\* C10 as amended: the same, and the line is tags:: #on/travel.
C10_EndToEndLowerCase == C10_OneFilePerRecord /\ ScenarioWrites("tags:: #on/travel\n")

C10_Witness ==
    /\ pc = "done"
    /\ Scenario
    /\ Cardinality(JournalPaths) = 2
    /\ S("tags:: #on/travel\n")
           \in Range(vault[<<"journal", "2023", "2023-05", "2023-05-01.md">>])

(***************************************************************************)
(* capwords applied twice                                                  *)
(***************************************************************************)
\* the strings capwords has been applied to: prefix + tag of the stored records
CapwordsInputs ==
    UNION {{tag_prefix \o data.entries[n].tags[m] :
               m \in {j \in DOMAIN data.entries[n].tags :
                         data.entries[n].tags[j] \notin ignore_tags}} :
           n \in {r \in Stored : "tags" \in DOMAIN data.entries[r]}}

Cased(c) == c \in Range(LowerCase) \cup Range(UpperCase)

\* a word after the first one begins with a letter
LaterWordWithLetter(x) == \E n \in 2..Len(x) : x[n - 1] = " " /\ Cased(x[n])

\* C11 as stated: capwords(capwords(x)) = capwords(x) for every string x that
\* capwords accepts, the strings of several words included.
C11_Idempotent == \A x \in CapwordsInputs : capwords(capwords(x)) = capwords(x)

\* C11 as amended: capwords(capwords(x)) = capwords(x) exactly for the
\* accepted strings in which no word after the first begins with a letter;
\* the second application lower-cases the capitals of the later words.
C11_IdempotentFirstWord ==
    \A x \in CapwordsInputs :
        /\ (capwords(capwords(x)) = capwords(x)) <=> ~LaterWordWithLetter(x)
        /\ capwords(capwords(x)) =
               [n \in DOMAIN capwords(x) |->
                   IF n = 1 THEN capwords(x)[n] ELSE lower(capwords(x)[n])]

\* a tag that capwords changes and a second application leaves alone has been
\* written to the entry's file
C11_Witness ==
    /\ pc = "done"
    /\ \E x \in CapwordsInputs :
          /\ capwords(x) # x
          /\ capwords(capwords(x)) = capwords(x)
          /\ \E p \in JournalPaths : \E n \in DOMAIN vault[p] :
                vault[p][n] = S("tags:: " \o Str(capwords(x)) \o "\n")

(***************************************************************************)
(* Serialized entries: the front matter and the inline lines               *)
(***************************************************************************)
\* the front-matter block of a serialized entry: what lies between an
\* opening "---" line and the closing one
FrontEnd(e) ==
    IF e # <<>> /\ e[1] = S("---\n")
    THEN CHOOSE n \in 2..Len(e) :
            /\ e[n] \in {S("---\n\n"), S("\n---\n")}
            /\ \A m \in 2..(n - 1) : e[m] \notin {S("---\n\n"), S("\n---\n")}
    ELSE 0

Front(e) == IF FrontEnd(e) = 0 THEN <<>> ELSE SubSeq(e, 2, FrontEnd(e) - 1)

AfterFront(e) == SubSeq(e, FrontEnd(e) + 1, Len(e))

IsLine(chunk, line) == chunk.k = "s" /\ chunk.a \in {line, line \o "\n"}

\* the keys rendered as front-matter lines
FrontKeys(e, lines) ==
    {lines[j].key : j \in {x \in DOMAIN lines :
                              \E n \in DOMAIN Front(e) : IsLine(Front(e)[n], lines[x].front)}}

\* the keys rendered as inline lines, in the order of the lines
InlineKeys(e, lines) ==
    LET hits == SelectSeq(AfterFront(e),
                          LAMBDA c : \E j \in DOMAIN lines : IsLine(c, lines[j].inline))
    IN [n \in DOMAIN hits |->
           lines[CHOOSE j \in DOMAIN lines : IsLine(hits[n], lines[j].inline)].key]

\* keys is in the order of the mapping, no key twice
InsertionOrder(keys, lines) ==
    keys = SelectSeq([j \in DOMAIN lines |-> lines[j].key], LAMBDA key : key \in Range(keys))

InlineInOrder(e, lines) == InsertionOrder(InlineKeys(e, lines), lines)

FrontOnlyNamed(e, lines, names) == FrontKeys(e, lines) \subseteq names

NoKeyTwice(e, lines) == FrontKeys(e, lines) \cap Range(InlineKeys(e, lines)) = {}

\* the lines a metadata mapping can be rendered as
JournalLines(n) ==
    LET metadata == retrieve_metadata(data.entries[n],
                                      astimezone(data.entries[n].creationDate,
                                                 data.entries[n].timeZone),
                                      tag_prefix, ignore_tags)
    IN [j \in DOMAIN metadata |->
           [key |-> metadata[j].key,
            front |-> metadata[j].key \o ": " \o metadata[j].value,
            inline |-> metadata[j].key \o ":: " \o metadata[j].value]]

EntryLines(self) ==
    [j \in DOMAIN self.metadata |->
        [key |-> self.metadata[j].key,
         front |-> self.metadata[j].key \o ": " \o quote(self.metadata[j]),
         inline |-> self.metadata[j].key \o ":: " \o self.metadata[j].value]]

\* the options Entry.from_json_entry is called with, and the front-matter
\* settings of an Entry
ExtraTag == <<"#", "x", " ", "y">>

EntryKwargs ==
    {[tag_prefix |-> tag_prefix, status_prefix |-> <<"#", "s">>],
     [tag_prefix |-> tag_prefix, status_prefix |-> <<"#", "s">>,
      journal_name |-> journal_name(journal), ignore_tags |-> ignore_tags,
      status_tags |-> {Travel}, extra_tags |-> <<ExtraTag>>],
     [tag_prefix |-> tag_prefix, status_prefix |-> <<"#", "s">>,
      journal_name |-> journal_name(journal), ignore_fields |-> <<"favorite", "lat">>]}

YamlFieldChoices == {<<>>, <<"tags">>, <<"Tags", "Place">>, <<"created", "favorite", "lat">>}

\* the Entries of the stored records, with every front-matter setting
StoredEntries ==
    UNION {UNION {{SetYaml(self, has_yaml, yaml_fields) :
                      self \in Entries(data.entries[n], kwargs),
                      has_yaml \in BOOLEAN, yaml_fields \in YamlFieldChoices} :
                  kwargs \in EntryKwargs} :
           n \in Stored}

\* Entry.__str__ renders the inline keys in insertion order, only keys of
\* yaml_fields in the front matter, and no key in both
C12_EntryStr ==
    \A self \in StoredEntries :
        /\ InlineInOrder(Entry_str(self), EntryLines(self))
        /\ FrontOnlyNamed(Entry_str(self), EntryLines(self), Range(self.yaml_fields))
        /\ NoKeyTwice(Entry_str(self), EntryLines(self))

\* the entry text of process_journal has its inline keys in insertion order
\* and only location, places and tags in its front matter
C12_JournalOrderAndNames ==
    ~merge_entries =>
        \A n \in Stored :
            /\ InlineInOrder(entries[n].value.text, JournalLines(n))
            /\ FrontOnlyNamed(entries[n].value.text, JournalLines(n), YamlNames)
            /\ yaml => FrontKeys(entries[n].value.text, JournalLines(n)) # {}

\* the entry text of process_journal renders no key twice
C12_JournalNoKeyTwice ==
    ~merge_entries =>
        \A n \in Stored : NoKeyTwice(entries[n].value.text, JournalLines(n))

\* without YAML front matter the entry text of process_journal renders no
\* key twice
C12_JournalNoKeyTwiceNoYaml == ~yaml => C12_JournalNoKeyTwice

\* C12: in every serialized entry, of Entry.__str__ and of process_journal,
\* with front matter or without, the inline keys are in insertion order, only
\* front-matter fields are in the front-matter block, and no key is rendered
\* both in the front matter and as an inline line.
C12_Serialized == C12_EntryStr /\ C12_JournalOrderAndNames /\ C12_JournalNoKeyTwice

\* an Entry with tags and a place in its front matter and other keys inline
\* has been serialized, and so has an entry text with front matter
C12_Rendered ==
    /\ pc = "done"
    /\ yaml
    /\ \E self \in StoredEntries :
          /\ FrontKeys(Entry_str(self), EntryLines(self)) = {"tags", "place"}
          /\ Len(InlineKeys(Entry_str(self), EntryLines(self))) >= 3
    /\ \E n \in Stored :
          {"places", "tags", "location"} \subseteq FrontKeys(entries[n].value.text, JournalLines(n))

(***************************************************************************)
(* A second run over the same journal                                      *)
(***************************************************************************)
JournalFiles == [p \in JournalPaths |-> vault[p]]

\* a chunk an attachment rewrite has produced
IsEmbed(c) == ~IsPlaceholder(c) /\ IsPlaceholderOrEmbed(c)

\* C13: a run of process_journal that starts after a run over the same
\* journal with the same options has returned raises no error and leaves
\* the same output files with the same contents and the same attachment
\* file names as that run left.
C13_RerunIdempotent ==
    previous.completed =>
        /\ pc # "error"
        /\ pc = "done" => /\ JournalFiles = previous.vault
                          /\ attachments = previous.attachments

\* a second run has returned: the first one had renamed the hash-named
\* files and written entries with embeds, the second found none to rename
C13_Witness ==
    /\ pc = "done"
    /\ previous.completed
    /\ previous.attachments # {}
    /\ previous.attachments \cap HashFiles(data) = {}
    /\ cleared # {}
    /\ \E p \in JournalPaths : \E n \in DOMAIN vault[p] : IsEmbed(vault[p][n])
====
